---- MODULE Spec2Model ----
(***************************************************************************)
(* Multi-store inventory update (src/stock_updater.py, the live module     *)
(* below the commented-out single-store variant): the store list loaded    *)
(* from the environment, the FTP download, the row mapping, the per-item   *)
(* lookup and adjustment, and main's loop over the stores.                 *)
(***************************************************************************)
EXTENDS Integers, Sequences, FiniteSets, TLC

\* Highest numeric suffix N for which SHOP_NAME_N / ACCESS_TOKEN_N may be set.
MaxStoreIndex == 2
\* Longest spreadsheet (number of data rows) the FTP server may serve.
MaxRows == 2

(***************************************************************************)
(* Python values.  None, str, int, float nan, list and dict are tagged so   *)
(* that the operations below can tell them apart the way the interpreter   *)
(* does.  A text is the sequence of the code points of its characters      *)
(* (ord(c), 0 to 1114111), so that every character of a cell can be        *)
(* written: "S1 W" is <<83, 49, 32, 87>>.                                  *)
(***************************************************************************)
None == [t |-> "None"]
NaN == [t |-> "nan"]
Str(s) == [t |-> "str", s |-> s]
PyInt(n) == [t |-> "int", n |-> n]
List(l) == [t |-> "list", l |-> l]
Dict(keys, f) == [t |-> "dict", keys |-> keys, f |-> f]
EmptyDict == Dict({}, <<>>)

\* The result of evaluating an expression: a value, or a raised exception.
Ok(v) == [exc |-> "none", v |-> v]
Raise(e) == [exc |-> e, v |-> None]

\* x[key] for a string key.
GetKey(x, key) ==
    IF x.t = "dict"
    THEN IF key \in x.keys THEN Ok(x.f[key]) ELSE Raise("KeyError")
    ELSE Raise("TypeError")

\* x[0].
GetIndex0(x) ==
    IF x.t = "list"
    THEN IF Len(x.l) > 0 THEN Ok(x.l[1]) ELSE Raise("IndexError")
    ELSE IF x.t = "str"
    THEN IF Len(x.s) > 0 THEN Ok(Str(<<x.s[1]>>)) ELSE Raise("IndexError")
    ELSE IF x.t = "dict" THEN Raise("KeyError")
    ELSE Raise("TypeError")

\* x.get(key, default): only a dict has the method.
DictGet(x, key, default) ==
    IF x.t = "dict"
    THEN IF key \in x.keys THEN Ok(x.f[key]) ELSE Ok(default)
    ELSE Raise("AttributeError")

\* bool(x).
Truthy(x) ==
    CASE x.t = "None" -> FALSE
      [] x.t = "str" -> Len(x.s) > 0
      [] x.t = "list" -> Len(x.l) > 0
      [] x.t = "dict" -> x.keys # {}
      [] x.t = "int" -> x.n # 0
      [] OTHER -> TRUE

(***************************************************************************)
(* HTTP.  requests.post either raises (the endpoint is unreachable) or     *)
(* returns a response with a status code and a body; response.json()       *)
(* raises on a body that is not JSON.                                      *)
(***************************************************************************)
ConnectionError == [t |-> "ConnectionError"]
Http(status, body) == [t |-> "http", status_code |-> status, body |-> body]
NotJson == [t |-> "text"]

ResponseJson(response) ==
    IF response.body.t = "text" THEN Raise("JSONDecodeError") ELSE Ok(response.body)

\* The ids a store's API reports for a SKU: scoped to the store, and kept as
\* the triple they are made from (an id is passed on, never read).
VariantId(shop, sku) == Str(<<"variant", shop, sku>>)
InventoryItemId(shop, sku) == Str(<<"item", shop, sku>>)

\* Bodies of a productVariants(first: 1, query: $sku) answer.
VariantBody(edges) ==
    Dict({"data"}, [data |->
        Dict({"productVariants"}, [productVariants |->
            Dict({"edges"}, [edges |-> List(edges)])])])
VariantEdge(shop, sku) ==
    Dict({"node"}, [node |->
        Dict({"id", "inventoryItem"},
             [id |-> VariantId(shop, sku),
              inventoryItem |-> Dict({"id"}, [id |-> InventoryItemId(shop, sku)])])])
ErrorsOnlyBody == Dict({"errors"}, [errors |-> List(<<Str(<<101>>)>>)])
NullDataBody == Dict({"data", "errors"}, [data |-> None, errors |-> List(<<Str(<<101>>)>>)])

\* What the store's endpoint may answer to a lookup of sku.
LookupResponses(shop, sku) ==
    { ConnectionError,
      Http(500, NotJson),
      Http(200, NotJson),
      Http(200, ErrorsOnlyBody),
      Http(200, NullDataBody),
      Http(200, VariantBody(<<>>)),
      Http(200, VariantBody(<<VariantEdge(shop, sku)>>)) }

\* Bodies of an inventoryAdjustQuantity answer.
AdjustBody(payload) ==
    Dict({"data"}, [data |-> Dict({"inventoryAdjustQuantity"}, [inventoryAdjustQuantity |-> payload])])
AdjustPayload(userErrors) ==
    Dict({"inventoryLevel", "userErrors"},
         [inventoryLevel |-> EmptyDict, userErrors |-> List(userErrors)])
UserError == Dict({"field", "message"}, [field |-> None, message |-> Str(<<109>>)])

\* What the store's endpoint may answer to an adjustment.
AdjustResponses ==
    { ConnectionError,
      Http(500, NotJson),
      Http(200, NotJson),
      Http(200, ErrorsOnlyBody),
      Http(200, AdjustBody(None)),
      Http(200, AdjustBody(AdjustPayload(<<>>))),
      Http(200, AdjustBody(AdjustPayload(<<UserError>>))) }

(***************************************************************************)
(* The spreadsheet.  pd.read_excel gives a DataFrame: a set of columns and *)
(* rows of cells; an empty cell reads as nan.  A row holds None in the     *)
(* place of a column the sheet does not have, and that place is never read.*)
(***************************************************************************)
CodeColumn == "Code & Description"
BalanceColumn == "Balance"
DataFrame(columns, rows) == [t |-> "df", columns |-> columns, rows |-> rows]

\* The SKUs of the served sheet: "S1" and "S2".
S1 == <<83, 49>>
S2 == <<83, 50>>

\* The rows the served sheet is made of: a row with an empty code cell, a
\* product row with a quantity ("S1", an em space U+2003, "W"), a product
\* row with an empty quantity cell ("S2"), and a row whose code cell is
\* blank text (" ").
SampleRows ==
    { [code |-> NaN, balance |-> PyInt(14)],
      [code |-> Str(S1 \o <<8195, 87>>), balance |-> PyInt(14)],
      [code |-> Str(S2), balance |-> NaN],
      [code |-> Str(<<32>>), balance |-> NaN] }

RowsOver(columns) ==
    { [code |-> IF CodeColumn \in columns THEN r.code ELSE None,
       balance |-> IF BalanceColumn \in columns THEN r.balance ELSE None] :
      r \in SampleRows }
SeqsUpTo(S, n) == UNION { [1..k -> S] : k \in 0..n }
Sheets ==
    UNION { { DataFrame(columns, rows) : rows \in SeqsUpTo(RowsOver(columns), MaxRows) } :
            columns \in SUBSET {CodeColumn, BalanceColumn} }

\* str(n) of a natural number: its decimal digits, "0" being 48.
RECURSIVE DecimalOf(_)
DecimalOf(n) ==
    IF n < 10 THEN <<48 + n>>
    ELSE Append(DecimalOf(n \div 10), 48 + (n % 10))

\* str(x) of a cell: "nan" for an empty cell, the digits of a number (with
\* its sign "-", 45), "None" for None, the text itself.
PyStr(x) ==
    IF x.t = "nan" THEN <<110, 97, 110>>
    ELSE IF x.t = "None" THEN <<78, 111, 110, 101>>
    ELSE IF x.t = "int" THEN (IF x.n < 0 THEN <<45>> \o DecimalOf(0 - x.n) ELSE DecimalOf(x.n))
    ELSE x.s

\* The characters c.isspace() holds of, which str.split() separates on:
\* tab to carriage return, the separators U+001C to U+001F, the space,
\* U+0085, U+00A0, U+1680, U+2000 to U+200A, U+2028, U+2029, U+202F,
\* U+205F and U+3000.
Whitespace ==
    (9..13) \cup (28..32) \cup {133, 160, 5760} \cup (8192..8202)
            \cup {8232, 8233, 8239, 8287, 12288}
IsSpace(c) == c \in Whitespace

RECURSIVE DropSpaces(_)
DropSpaces(s) ==
    IF s = <<>> THEN <<>>
    ELSE IF IsSpace(Head(s)) THEN DropSpaces(Tail(s)) ELSE s

RECURSIVE TakeToken(_)
TakeToken(s) ==
    IF s = <<>> THEN <<>>
    ELSE IF IsSpace(Head(s)) THEN <<>> ELSE <<Head(s)>> \o TakeToken(Tail(s))

\* s.split()[0]: the first whitespace-delimited token; split() of a blank
\* string is the empty list.
SplitFirst(s) ==
    LET rest == DropSpaces(s)
    IN  IF rest = <<>> THEN Raise("IndexError") ELSE Ok(Str(TakeToken(rest)))

\* s.lower() == 'nan'.  lower() takes no character but "N" (78) and "n"
\* (110) to "n", and none but "A" (65) and "a" (97) to "a".
LowerIsNan(s) ==
    /\ Len(s) = 3
    /\ s[1] \in {78, 110}
    /\ s[2] \in {65, 97}
    /\ s[3] \in {78, 110}

\* pd.notna(x).
NotNa(x) == x.t \notin {"nan", "None"}

\* The decimal digits int() reads: the digit 0 of each script, the digits
\* 1 to 9 of a script following its 0.
Digits ==
    { 48, 1632, 1776, 1984, 2406, 2534, 2662, 2790, 2918, 3046, 3174, 3302,
      3430, 3558, 3664, 3792, 3872, 4160, 4240, 6112, 6160, 6470, 6608,
      6784, 6800, 6992, 7088, 7232, 7248, 42528, 43216, 43264, 43472,
      43504, 43600, 44016, 65296, 66720, 68912, 69734, 69872, 69942, 70096,
      70384, 70736, 70864, 71248, 71360, 71472, 71904, 72016, 72784, 73040,
      73120, 92768, 92864, 93008, 120782, 120792, 120802, 120812, 120822,
      123200, 123632, 125264, 130032 }
IsDigit(c) == \E zero \in Digits : c \in zero..(zero + 9)
DigitOf(c) == c - (CHOOSE zero \in Digits : c \in zero..(zero + 9))

\* The whitespace int() passes over around the number: that of str.split()
\* without the separators U+001C to U+001F.
IsIntSpace(c) == IsSpace(c) /\ c \notin 28..31

\* The text without the whitespace int() passes over at both ends.
RECURSIVE DropIntSpaces(_)
DropIntSpaces(s) ==
    IF s = <<>> THEN <<>>
    ELSE IF IsIntSpace(Head(s)) THEN DropIntSpaces(Tail(s)) ELSE s
RECURSIVE DropTrailingIntSpaces(_)
DropTrailingIntSpaces(s) ==
    IF s = <<>> THEN <<>>
    ELSE IF IsIntSpace(s[Len(s)]) THEN DropTrailingIntSpaces(SubSeq(s, 1, Len(s) - 1)) ELSE s
Strip(s) == DropTrailingIntSpaces(DropIntSpaces(s))

\* The value of a decimal literal: digits, with single underscores (95)
\* between digits; anything else is a ValueError.
RECURSIVE ParseDigits(_, _, _)
ParseDigits(s, value, after_digit) ==
    IF s = <<>> THEN (IF after_digit THEN Ok(value) ELSE Raise("ValueError"))
    ELSE IF IsDigit(Head(s)) THEN ParseDigits(Tail(s), 10 * value + DigitOf(Head(s)), TRUE)
    ELSE IF Head(s) = 95 /\ after_digit THEN ParseDigits(Tail(s), value, FALSE)
    ELSE Raise("ValueError")

\* int(s) of a text: surrounding whitespace, a sign ("+" 43, "-" 45), a
\* decimal literal.
IntOfText(s) ==
    LET text == Strip(s)
        signed == text # <<>> /\ Head(text) \in {43, 45}
        parsed == ParseDigits(IF signed THEN Tail(text) ELSE text, 0, FALSE)
    IN  IF parsed.exc # "none" THEN parsed
        ELSE IF signed /\ Head(text) = 45 THEN Ok(0 - parsed.v)
        ELSE Ok(parsed.v)

\* int(x): the integer itself, the integer a text spells, ValueError for
\* nan and for any other text, TypeError for None, a list or a dict.
IntOf(x) ==
    IF x.t = "int" THEN Ok(x.n)
    ELSE IF x.t = "str" THEN IntOfText(x.s)
    ELSE IF x.t = "nan" THEN Raise("ValueError")
    ELSE Raise("TypeError")

Item(sku, quantity) == [sku |-> sku, inventory_quantity |-> quantity]

\* MapRow with int() applied to whatever the Balance cell holds.
MapRowAnyBalance(df, row, mapped_data) ==
    LET sku == IF CodeColumn \in df.columns THEN SplitFirst(PyStr(row.code)) ELSE Ok(None)
        qty == IF BalanceColumn \in df.columns THEN IntOf(row.balance) ELSE Ok(0)
    IN  IF sku.exc # "none" THEN sku
        ELSE IF Truthy(sku.v) /\ ~LowerIsNan(sku.v.s)
        THEN IF qty.exc # "none" THEN qty
             ELSE Ok(Append(mapped_data, Item(sku.v.s, qty.v)))
        ELSE Ok(mapped_data)

\* MapRow with a row dropped when an earlier row has its SKU.
MapRowOncePerSku(df, row, mapped_data) ==
    LET sku == IF CodeColumn \in df.columns THEN SplitFirst(PyStr(row.code)) ELSE Ok(None)
        qty == IF BalanceColumn \in df.columns /\ NotNa(row.balance)
               THEN IntOf(row.balance) ELSE Ok(0)
    IN  IF sku.exc # "none" THEN sku
        ELSE IF Truthy(sku.v) /\ ~LowerIsNan(sku.v.s)
        THEN IF qty.exc # "none" THEN qty
             ELSE IF \E k \in 1..Len(mapped_data) : mapped_data[k].sku = sku.v.s
             THEN Ok(mapped_data)
             ELSE Ok(Append(mapped_data, Item(sku.v.s, qty.v)))
        ELSE Ok(mapped_data)

\* One pass of the loop body of map_excel_to_shopify: the items with the
\* row's item appended, the items unchanged, or the exception raised.
MapRow(df, row, mapped_data) ==
    LET sku == IF CodeColumn \in df.columns THEN SplitFirst(PyStr(row.code)) ELSE Ok(None)
        qty == IF BalanceColumn \in df.columns /\ NotNa(row.balance)
               THEN IntOf(row.balance) ELSE Ok(0)
    IN  IF sku.exc # "none" THEN sku
        ELSE IF Truthy(sku.v) /\ ~LowerIsNan(sku.v.s)
        THEN IF qty.exc # "none" THEN qty
             ELSE Ok(Append(mapped_data, Item(sku.v.s, qty.v)))
        ELSE Ok(mapped_data)

RECURSIVE MapRows(_, _, _)
MapRows(df, i, mapped_data) ==
    IF i > Len(df.rows) THEN Ok(mapped_data)
    ELSE LET r == MapRow(df, df.rows[i], mapped_data)
         IN  IF r.exc # "none" THEN r ELSE MapRows(df, i + 1, r.v)

map_excel_to_shopify(df) ==
    IF df.t = "None" THEN Ok(None) ELSE MapRows(df, 1, <<>>)

(***************************************************************************)
(* The two requests of an item.                                            *)
(***************************************************************************)
\* x[k1][k2]...[kn], left to right, stopping at the first subscript that
\* raises; the subscript "0" stands for the index 0.
RECURSIVE Subscripts(_, _)
Subscripts(x, path) ==
    IF path = <<>> THEN Ok(x)
    ELSE CHOOSE result \in
             { IF r.exc # "none" THEN r ELSE Subscripts(r.v, Tail(path)) :
               r \in { IF Head(path) = "0" THEN GetIndex0(x) ELSE GetKey(x, Head(path)) } } :
             TRUE

\* The try block of get_variant_and_inventory_id (lines 303-308): the pair
\* read from the answer, or the exception raised while reading it.
ReadVariant(response) ==
    LET variant_data == ResponseJson(response)
        edge == IF variant_data.exc # "none" THEN variant_data
                ELSE Subscripts(variant_data.v, <<"data", "productVariants", "edges", "0">>)
        variant_id == IF edge.exc # "none" THEN edge
                      ELSE Subscripts(edge.v, <<"node", "id">>)
        inventory_item_id == IF variant_id.exc # "none" THEN variant_id
                             ELSE Subscripts(edge.v, <<"node", "inventoryItem", "id">>)
    IN  IF inventory_item_id.exc = "none"
        THEN Ok(<<variant_id.v, inventory_item_id.v>>)
        ELSE inventory_item_id

\* get_variant_and_inventory_id on the endpoint's answer: the pair returned
\* or the exception that leaves the method.
get_variant_and_inventory_id(response) ==
    IF response.t = "ConnectionError" THEN Raise("ConnectionError")
    ELSE IF response.status_code # 200 THEN Ok(<<None, None>>)
    ELSE LET ids == ReadVariant(response)
         IN  IF ids.exc \in {"KeyError", "IndexError"} THEN Ok(<<None, None>>) ELSE ids

\* The branch update_shopify_inventory takes on the answer to an adjustment:
\* "updated", "skipped", or the exception raised while reading the answer.
AdjustOutcome(response) ==
    IF response.t = "ConnectionError" THEN Raise("ConnectionError")
    ELSE IF response.status_code = 200
    THEN LET result == ResponseJson(response)
             data == IF result.exc = "none" THEN DictGet(result.v, "data", EmptyDict) ELSE result
             adjust == IF data.exc = "none"
                       THEN DictGet(data.v, "inventoryAdjustQuantity", EmptyDict) ELSE data
             userErrors == IF adjust.exc = "none"
                           THEN DictGet(adjust.v, "userErrors", None) ELSE adjust
         IN  IF userErrors.exc # "none" THEN userErrors
             ELSE IF Truthy(userErrors.v) THEN Ok("skipped") ELSE Ok("updated")
    ELSE Ok("skipped")

(***************************************************************************)
(* Logging.  A logger call hands over a record: its level, its message     *)
(* (named by its leading words; the errors and the response text quoted    *)
(* behind them are left out) and the store and the SKU, or the counts, it  *)
(* names.  The handler writes to app.log the records at or above the       *)
(* level configured at line 198.                                           *)
(***************************************************************************)
Levels == [DEBUG |-> 10, INFO |-> 20, WARNING |-> 30, ERROR |-> 40, CRITICAL |-> 50]
LogLevel == "INFO"
Emitted(record) == Levels[record.level] >= Levels[LogLevel]
AppLog(records) == SelectSeq(records, Emitted)

ItemRecord(level, msg, shop_name, sku) ==
    [level |-> level, msg |-> msg, shop |-> shop_name, sku |-> sku]
CountRecord(msg, shop_name, counts) ==
    [level |-> "INFO", msg |-> msg, shop |-> shop_name, counts |-> counts]

\* LookupLog with the status test left to the except clause: an answer
\* that is not a success is logged like a SKU that was not found.
LookupLogOneCause(response, shop_name, sku) ==
    IF response.t = "ConnectionError" THEN <<>>
    ELSE IF response.status_code # 200 \/ ReadVariant(response).exc \in {"KeyError", "IndexError"}
    THEN <<ItemRecord("DEBUG", "Variant not found for SKU", shop_name, sku)>>
    ELSE <<>>

\* The records get_variant_and_inventory_id hands to the logger: the
\* warning of line 300 for an answer that is not a success, the debug
\* record of line 310 when the except clause is entered, none otherwise.
LookupLog(response, shop_name, sku) ==
    IF response.t = "ConnectionError" THEN <<>>
    ELSE IF response.status_code # 200
    THEN <<ItemRecord("WARNING", "Error fetching variant for SKU", shop_name, sku)>>
    ELSE IF ReadVariant(response).exc \in {"KeyError", "IndexError"}
    THEN <<ItemRecord("DEBUG", "Variant not found for SKU", shop_name, sku)>>
    ELSE <<>>

\* The records update_shopify_inventory hands to the logger on the answer
\* to an adjustment (lines 369, 372, 375); none when reading it raises.
AdjustLog(response, shop_name, sku) ==
    IF AdjustOutcome(response).exc # "none" THEN <<>>
    ELSE IF response.status_code # 200
    THEN <<ItemRecord("ERROR", "Failed to update SKU", shop_name, sku)>>
    ELSE IF AdjustOutcome(response).v = "skipped"
    THEN <<ItemRecord("WARNING", "Errors updating SKU", shop_name, sku)>>
    ELSE <<ItemRecord("DEBUG", "Successfully updated inventory for SKU", shop_name, sku)>>

(***************************************************************************)
(* Configuration read from the environment when the module is loaded.      *)
(* environ says which variables are set to a non-empty value.              *)
(***************************************************************************)
FtpVars == {"FTP_HOST", "FTP_USER", "FTP_PASS", "FTP_FILE_PATH"}
Environs ==
    [ftp : SUBSET FtpVars,
     shop_name : [1..MaxStoreIndex -> BOOLEAN],
     access_token : [1..MaxStoreIndex -> BOOLEAN]]

\* LoadStores going on to the next index after an incomplete one.
RECURSIVE LoadStoresSkipGaps(_, _, _)
LoadStoresSkipGaps(env, store_index, stores) ==
    IF store_index > MaxStoreIndex THEN stores
    ELSE IF ~env.shop_name[store_index] \/ ~env.access_token[store_index]
    THEN LoadStoresSkipGaps(env, store_index + 1, stores)
    ELSE LoadStoresSkipGaps(env, store_index + 1, Append(stores, [shop_name |-> store_index]))

\* The module-level loop that fills STORES: indices 1, 2, ... up to the
\* first one whose SHOP_NAME_i or ACCESS_TOKEN_i is unset.
RECURSIVE LoadStores(_, _, _)
LoadStores(env, store_index, stores) ==
    IF store_index > MaxStoreIndex THEN stores
    ELSE IF ~env.shop_name[store_index] \/ ~env.access_token[store_index] THEN stores
    ELSE LoadStores(env, store_index + 1, Append(stores, [shop_name |-> store_index]))

\* RequiredVars as the single-store variant of the script lists them.
LegacyRequiredVars == {"FTP_PASS"}

\* The variables check_environment requires.
RequiredVars == {"FTP_HOST", "FTP_USER", "FTP_PASS", "FTP_FILE_PATH"}

\* check_environment: the exception it raises, or "none".
check_environment(env, stores) ==
    LET missing == { var \in RequiredVars : var \notin env.ftp }
    IN  IF missing # {} THEN "EnvironmentError"
        ELSE IF stores = <<>> THEN "EnvironmentError"
        ELSE "none"

(***************************************************************************)
(* The FTP download (lines 236-253).  The try block runs five steps in     *)
(* order: FTP(FTP_HOST) connects the socket and then reads the server's    *)
(* greeting, and only when both went through is ftp assigned; then the     *)
(* login, the retrieval and the parse.  The stage of a session is the step *)
(* that raised, or "ok" when none did.                                     *)
(***************************************************************************)
TrySteps == <<"connect", "greeting", "login", "retr", "parse">>
FtpStages == {"connect", "greeting", "login", "retr", "parse", "ok"}

\* DownloadResult with a failed parse handing back the rows read so far.
DownloadResultPartial(stage, df) == IF stage \in {"ok", "parse"} THEN df ELSE None

\* What download_excel_from_ftp returns when the transfer stops at stage:
\* the return of line 243, or the None of the except clause (line 248).
DownloadResult(stage, df) == IF stage = "ok" THEN df ELSE None

\* No download in progress: no socket, ftp not assigned, quit() not called.
NoSession ==
    [stage |-> "none", opened |-> FALSE, bound |-> FALSE, quit_calls |-> 0,
     quit_raised |-> FALSE, escaped |-> "none"]

\* What a step of the try block leaves behind when it goes through: the
\* connected socket (socket.create_connection inside FTP.connect), the
\* assignment of ftp once the constructor has returned (line 238).
AfterStep(step, session) ==
    IF step = "connect" THEN [session EXCEPT !.opened = TRUE]
    ELSE IF step = "greeting" THEN [session EXCEPT !.bound = TRUE]
    ELSE session

\* The try block, lines 237-243, from its k-th step on: the steps run in
\* order up to the one that raises.
RECURSIVE TryBlock(_, _, _)
TryBlock(k, fails_at, session) ==
    IF k > Len(TrySteps) THEN [session EXCEPT !.stage = "ok"]
    ELSE IF TrySteps[k] = fails_at THEN [session EXCEPT !.stage = fails_at]
    ELSE TryBlock(k + 1, fails_at, AfterStep(TrySteps[k], session))

\* What leaves the finally block when ftp.quit() raises (lines 250-253):
\* the bare except swallows it.
FinallyQuit(raised) == "none"

\* The finally block, lines 249-253: ftp.quit().  With ftp unassigned the
\* expression raises UnboundLocalError and no QUIT is sent; with ftp
\* assigned quit() is called once and may raise itself.
FinallyBlock(session, quit_raises) ==
    LET raised == IF ~session.bound THEN "UnboundLocalError"
                  ELSE IF quit_raises THEN "error_reply" ELSE "none"
    IN  [session EXCEPT !.quit_calls = IF session.bound THEN 1 ELSE 0,
                        !.quit_raised = raised # "none",
                        !.escaped = FinallyQuit(raised)]

\* The session when download_excel_from_ftp is left.
FtpSession(stage, quit_raises) == FinallyBlock(TryBlock(1, stage, NoSession), quit_raises)

VARIABLES
    environ,            \* which environment variables are set
    STORES,             \* the store configurations loaded from it
    pc,                 \* where main is
    exc,                \* the exception that left main, or "none"
    raised_in,          \* the function that raised it
    ftp,                \* the FTP session of the download in progress
    fetch_calls,        \* calls of download_excel_from_ftp
    excel_data,         \* the DataFrame, or None
    store_i,            \* position in STORES of the store being processed
    shopify_items,      \* the items mapped for that store
    item_i,             \* position in shopify_items of the item being processed
    inventory_item_id,  \* the id resolved for that item
    updated_count,
    skipped_count,
    total_updated,
    total_skipped,
    tallies,            \* what update_shopify_inventory returned, per store
    trace,              \* the requests the current store's updater has issued
    sync_log,           \* the records it has handed to the logger (lines 300-378)
    summary             \* whether the summary lines were logged

vars ==
    <<environ, STORES, pc, exc, raised_in, ftp, fetch_calls, excel_data, store_i,
      shopify_items, item_i, inventory_item_id, updated_count, skipped_count,
      total_updated, total_skipped, tallies, trace, sync_log, summary>>

config == <<environ, STORES>>
sync_locals == <<shopify_items, item_i, inventory_item_id, updated_count, skipped_count>>
totals == <<total_updated, total_skipped, tallies>>

Init ==
    /\ environ \in Environs
    /\ STORES = LoadStores(environ, 1, <<>>)
    /\ pc = "start"
    /\ exc = "none"
    /\ raised_in = "none"
    /\ ftp = NoSession
    /\ fetch_calls = 0
    /\ excel_data = None
    /\ store_i = 0
    /\ shopify_items = <<>>
    /\ item_i = 0
    /\ inventory_item_id = None
    /\ updated_count = 0
    /\ skipped_count = 0
    /\ total_updated = 0
    /\ total_skipped = 0
    /\ tallies = <<>>
    /\ trace = <<>>
    /\ sync_log = <<>>
    /\ summary = FALSE

\* NextItem as a loop that stays on the item it has just handled.
NextItemRetry(i) == i

\* The for loop of update_shopify_inventory moving on (also by continue).
NextItem(i) == i + 1

\* AddToTotal with = written for +=.
AddToTotalAssign(total, count) == count

\* total += count (main, lines 432-433).
AddToTotal(total, count) == total + count

\* EnterSync with the counters kept from the store before (counters held
\* outside the method).
EnterSyncKeepCounts ==
    /\ UNCHANGED <<updated_count, skipped_count>>
    /\ sync_log' = <<CountRecord("Processing items for store", STORES[store_i].shop_name,
                                 <<Len(shopify_items')>>)>>
    /\ item_i' = 1
    /\ inventory_item_id' = None

\* update_shopify_inventory, lines 351-356: the counters of a store's run
\* start at zero, the number of items is logged, the loop starts at the
\* first item; the call's inventory_item_id is not assigned yet.
EnterSync ==
    /\ updated_count' = 0
    /\ skipped_count' = 0
    /\ sync_log' = <<CountRecord("Processing items for store", STORES[store_i].shop_name,
                                 <<Len(shopify_items')>>)>>
    /\ item_i' = 1
    /\ inventory_item_id' = None

\* An exception leaves main (logged and re-raised by its except clause).
Raised(e, where) ==
    /\ pc' = "raised"
    /\ exc' = e
    /\ raised_in' = where

\* main, line 399.
CheckEnvironment ==
    /\ pc = "start"
    /\ LET e == check_environment(environ, STORES)
       IN  IF e # "none"
           THEN Raised(e, "check_environment")
           ELSE pc' = "download" /\ UNCHANGED <<exc, raised_in>>
    /\ UNCHANGED <<config, ftp, fetch_calls, excel_data, store_i, sync_locals, totals,
                   trace, sync_log, summary>>

\* main, lines 405-406: download_excel_from_ftp on the first store's updater.
DownloadExcelFromFtp ==
    /\ pc = "download"
    /\ \E stage \in FtpStages, quit_raises \in BOOLEAN, df \in Sheets :
          /\ ftp' = FtpSession(stage, quit_raises)
          /\ IF ftp'.escaped # "none"
             THEN /\ Raised(ftp'.escaped, "download_excel_from_ftp")
                  /\ UNCHANGED excel_data
             ELSE /\ excel_data' = DownloadResult(stage, df)
                  /\ pc' = "downloaded"
                  /\ UNCHANGED <<exc, raised_in>>
    /\ fetch_calls' = fetch_calls + 1
    /\ UNCHANGED <<config, store_i, sync_locals, totals, trace, sync_log, summary>>

\* AfterDownload with a failed download tried again.
AfterDownloadRetry ==
    /\ pc = "downloaded"
    /\ ftp' = NoSession
    /\ IF excel_data.t = "None"
       THEN pc' = "download" /\ UNCHANGED <<store_i, total_updated, total_skipped>>
       ELSE /\ pc' = "stores"
            /\ store_i' = 1
            /\ total_updated' = 0
            /\ total_skipped' = 0
    /\ UNCHANGED <<config, exc, raised_in, fetch_calls, excel_data, sync_locals, tallies,
                   trace, sync_log, summary>>

\* main, lines 408-416: return on a failed download, else start the loop.
AfterDownload ==
    /\ pc = "downloaded"
    /\ ftp' = NoSession
    /\ IF excel_data.t = "None"
       THEN pc' = "returned" /\ UNCHANGED <<store_i, total_updated, total_skipped>>
       ELSE /\ pc' = "stores"
            /\ store_i' = 1
            /\ total_updated' = 0
            /\ total_skipped' = 0
    /\ UNCHANGED <<config, exc, raised_in, fetch_calls, excel_data, sync_locals, tallies,
                   trace, sync_log, summary>>

\* NothingToSync with the sync entered whatever the items.
NothingToSyncNever(items) == FALSE

\* main, line 426: the store is passed over when there are no items.
NothingToSync(items) == items = <<>>

\* main, lines 418-428, and the head of update_shopify_inventory (351-354):
\* a new updater for the next store, the rows mapped for it, its counters.
StoreBegin ==
    /\ pc = "stores"
    /\ store_i <= Len(STORES)
    /\ trace' = <<>>
    /\ LET mapped == map_excel_to_shopify(excel_data)
       IN  IF mapped.exc # "none"
           THEN /\ Raised(mapped.exc, "map_excel_to_shopify")
                /\ sync_log' = <<>>
                /\ UNCHANGED <<store_i, sync_locals>>
           ELSE IF NothingToSync(mapped.v)
           THEN /\ pc' = "stores"
                /\ store_i' = store_i + 1
                /\ shopify_items' = mapped.v
                /\ sync_log' = <<>>
                /\ UNCHANGED <<exc, raised_in, item_i, inventory_item_id, updated_count,
                               skipped_count>>
           ELSE /\ pc' = "items"
                /\ shopify_items' = mapped.v
                /\ EnterSync
                /\ UNCHANGED <<exc, raised_in, store_i>>
    /\ UNCHANGED <<config, ftp, fetch_calls, excel_data, totals, summary>>

shop == STORES[store_i].shop_name
item == shopify_items[item_i]

Lookup(response) ==
    [op |-> "lookup", shop |-> shop, index |-> item_i, sku |-> item.sku,
     response |-> response]
\* Adjustment with the variant's id in the place of the inventory item's.
AdjustmentOfVariant(response) ==
    [op |-> "adjust", shop |-> shop, index |-> item_i,
     inventory_item_id |-> VariantId(shop, item.sku), delta |-> item.inventory_quantity,
     response |-> response]

\* The request update_inventory_item sends (lines 313-334, called at 363).
Adjustment(response) ==
    [op |-> "adjust", shop |-> shop, index |-> item_i,
     inventory_item_id |-> inventory_item_id, delta |-> item.inventory_quantity,
     response |-> response]

\* Resolve with an unresolved item passed over without being counted.
ResolveSkipUncounted ==
    /\ pc = "items"
    /\ item_i <= Len(shopify_items)
    /\ \E response \in LookupResponses(shop, item.sku) :
          /\ trace' = Append(trace, Lookup(response))
          /\ sync_log' = sync_log \o LookupLog(response, shop, item.sku)
          /\ LET ids == get_variant_and_inventory_id(response)
             IN  IF ids.exc # "none"
                 THEN /\ Raised(ids.exc, "get_variant_and_inventory_id")
                      /\ UNCHANGED <<item_i, inventory_item_id>>
                 ELSE IF ~Truthy(ids.v[2])
                 THEN /\ inventory_item_id' = ids.v[2]
                      /\ item_i' = NextItem(item_i)
                      /\ UNCHANGED <<pc, exc, raised_in>>
                 ELSE /\ pc' = "adjust"
                      /\ inventory_item_id' = ids.v[2]
                      /\ UNCHANGED <<exc, raised_in, item_i>>
    /\ UNCHANGED <<config, ftp, fetch_calls, excel_data, store_i, shopify_items,
                   updated_count, skipped_count, totals, summary>>

\* update_shopify_inventory, lines 356-361: the lookup of the next item;
\* line 357 assigns inventory_item_id whenever the lookup returns.
Resolve ==
    /\ pc = "items"
    /\ item_i <= Len(shopify_items)
    /\ \E response \in LookupResponses(shop, item.sku) :
          /\ trace' = Append(trace, Lookup(response))
          /\ sync_log' = sync_log \o LookupLog(response, shop, item.sku)
          /\ LET ids == get_variant_and_inventory_id(response)
             IN  IF ids.exc # "none"
                 THEN /\ Raised(ids.exc, "get_variant_and_inventory_id")
                      /\ UNCHANGED <<item_i, inventory_item_id, skipped_count>>
                 ELSE IF ~Truthy(ids.v[2])
                 THEN /\ inventory_item_id' = ids.v[2]
                      /\ skipped_count' = skipped_count + 1
                      /\ item_i' = NextItem(item_i)
                      /\ UNCHANGED <<pc, exc, raised_in>>
                 ELSE /\ pc' = "adjust"
                      /\ inventory_item_id' = ids.v[2]
                      /\ UNCHANGED <<exc, raised_in, item_i, skipped_count>>
    /\ UNCHANGED <<config, ftp, fetch_calls, excel_data, store_i, shopify_items,
                   updated_count, totals, summary>>

\* Adjust with the item's quantity set to 0 once it is applied.
AdjustClearsQuantity ==
    /\ pc = "adjust"
    /\ \E response \in AdjustResponses :
          /\ trace' = Append(trace, Adjustment(response))
          /\ sync_log' = sync_log \o AdjustLog(response, shop, item.sku)
          /\ LET outcome == AdjustOutcome(response)
                 where == IF response.t = "ConnectionError"
                          THEN "update_inventory_item" ELSE "update_shopify_inventory"
             IN  IF outcome.exc # "none"
                 THEN /\ Raised(outcome.exc, where)
                      /\ UNCHANGED <<shopify_items, item_i, inventory_item_id, updated_count,
                                     skipped_count>>
                 ELSE /\ pc' = "items"
                      /\ item_i' = NextItem(item_i)
                      /\ UNCHANGED inventory_item_id
                      /\ updated_count' = updated_count + (IF outcome.v = "updated" THEN 1 ELSE 0)
                      /\ skipped_count' = skipped_count + (IF outcome.v = "skipped" THEN 1 ELSE 0)
                      /\ shopify_items' = IF outcome.v = "updated"
                                          THEN [shopify_items EXCEPT ![item_i].inventory_quantity = 0]
                                          ELSE shopify_items
                      /\ UNCHANGED <<exc, raised_in>>
    /\ UNCHANGED <<config, ftp, fetch_calls, excel_data, store_i, totals, summary>>

\* update_shopify_inventory, lines 363-376: the adjustment of a resolved
\* item and the count of its outcome.
Adjust ==
    /\ pc = "adjust"
    /\ \E response \in AdjustResponses :
          /\ trace' = Append(trace, Adjustment(response))
          /\ sync_log' = sync_log \o AdjustLog(response, shop, item.sku)
          /\ LET outcome == AdjustOutcome(response)
                 where == IF response.t = "ConnectionError"
                          THEN "update_inventory_item" ELSE "update_shopify_inventory"
             IN  IF outcome.exc # "none"
                 THEN /\ Raised(outcome.exc, where)
                      /\ UNCHANGED <<item_i, inventory_item_id, updated_count, skipped_count>>
                 ELSE /\ pc' = "items"
                      /\ item_i' = NextItem(item_i)
                      /\ UNCHANGED inventory_item_id
                      /\ updated_count' = updated_count + (IF outcome.v = "updated" THEN 1 ELSE 0)
                      /\ skipped_count' = skipped_count + (IF outcome.v = "skipped" THEN 1 ELSE 0)
                      /\ UNCHANGED <<exc, raised_in>>
    /\ UNCHANGED <<config, ftp, fetch_calls, excel_data, store_i, shopify_items, totals,
                   summary>>

\* update_shopify_inventory, lines 378-379, and main, lines 431-433: the
\* store's counts returned and added to the totals.
SyncReturn ==
    /\ pc = "items"
    /\ item_i > Len(shopify_items)
    /\ tallies' = Append(tallies, [shop |-> shop, updated |-> updated_count,
                                   skipped |-> skipped_count])
    /\ total_updated' = AddToTotal(total_updated, updated_count)
    /\ total_skipped' = AddToTotal(total_skipped, skipped_count)
    /\ store_i' = store_i + 1
    /\ pc' = "stores"
    /\ sync_log' = Append(sync_log, CountRecord("Store: Updated items, Skipped items", shop,
                                                <<updated_count, skipped_count>>))
    /\ UNCHANGED <<config, exc, raised_in, ftp, fetch_calls, excel_data, sync_locals,
                   trace, summary>>

\* main, lines 435-438.
Summary ==
    /\ pc = "stores"
    /\ store_i > Len(STORES)
    /\ summary' = TRUE
    /\ pc' = "done"
    /\ UNCHANGED <<config, exc, raised_in, ftp, fetch_calls, excel_data, store_i,
                   sync_locals, totals, trace, sync_log>>

Next ==
    \/ CheckEnvironment
    \/ DownloadExcelFromFtp
    \/ AfterDownload
    \/ StoreBegin
    \/ Resolve
    \/ Adjust
    \/ SyncReturn
    \/ Summary

Spec == Init /\ [][Next]_vars

(***************************************************************************)
(* Properties.                                                             *)
(***************************************************************************)
Last(s) == s[Len(s)]

\* The answer to a lookup that carries a first match with both ids.
IsMatch(entry) ==
    /\ entry.response.t = "http"
    /\ entry.response.status_code = 200
    /\ entry.response.body.t = "dict"
    /\ "data" \in entry.response.body.keys
    /\ entry.response.body.f.data.t = "dict"
    /\ "productVariants" \in entry.response.body.f.data.keys
    /\ LET edges == entry.response.body.f.data.f.productVariants.f.edges.l
       IN  /\ edges # <<>>
           /\ edges[1].f.node.f.id = VariantId(entry.shop, entry.sku)
           /\ edges[1].f.node.f.inventoryItem.f.id = InventoryItemId(entry.shop, entry.sku)

\* The field errors an adjustment answer reports: its userErrors list, when
\* the body has one.
FieldErrors(response) ==
    IF response.body = AdjustBody(AdjustPayload(<<UserError>>)) THEN <<UserError>> ELSE <<>>

Lookups(tr) == { k \in 1..Len(tr) : tr[k].op = "lookup" }
Adjustments(tr) == { k \in 1..Len(tr) : tr[k].op = "adjust" }

\* update_shopify_inventory has just returned: the requests of the trace are
\* those of the store whose counts were returned last.
TraceOfLastTally ==
    /\ pc = "stores"
    /\ tallies # <<>>
    /\ trace # <<>>
    /\ trace[1].shop = Last(tallies).shop

\* C1: a request to a target that fails outright (the endpoint is
\* unreachable) does not abort the run: no such failure leaves main.
C1_UnreachableTargetDoesNotAbort ==
    ~(pc = "raised" /\ exc = "ConnectionError")

\* The counts a store's requests and answers give when the store is taken on
\* its own: an update per adjustment answered 200 with no field errors, a
\* skip per lookup that matched nothing and per other adjustment.
TallyOf(tr) ==
    LET updated == { k \in Adjustments(tr) :
                       /\ tr[k].response.t = "http"
                       /\ tr[k].response.status_code = 200
                       /\ FieldErrors(tr[k].response) = <<>> }
        unmatched == { k \in Lookups(tr) : ~IsMatch(tr[k]) }
    IN  [updated |-> Cardinality(updated),
         skipped |-> Cardinality(unmatched) + Cardinality(Adjustments(tr) \ updated)]

AllLookupsNonSuccess(tr) ==
    \A k \in 1..Len(tr) :
        /\ tr[k].op = "lookup"
        /\ tr[k].response.t = "http"
        /\ tr[k].response.status_code # 200

\* C2: target isolation.  At every point of a store's run its counters are
\* those its own requests and answers give, whatever stores were processed
\* before it, and its lookups carry the SKUs of the shared items; the counts
\* returned for it are these counters, with one lookup per item; and a store
\* all of whose lookups returned a non-success status has updated = 0 and
\* skipped = the number of records.
C2_TargetIsolation ==
    (trace # <<>> /\ pc # "raised") =>
        /\ updated_count = TallyOf(trace).updated
        /\ skipped_count = TallyOf(trace).skipped
        /\ \A k \in Lookups(trace) : trace[k].sku = shopify_items[trace[k].index].sku
        /\ pc \in {"stores", "done"} =>
               /\ Last(tallies) = [shop |-> trace[1].shop, updated |-> updated_count,
                                   skipped |-> skipped_count]
               /\ Cardinality(Lookups(trace)) = Len(shopify_items)
               /\ AllLookupsNonSuccess(trace) =>
                      Last(tallies).updated = 0 /\ Last(tallies).skipped = Len(shopify_items)

\* Two stores were processed; the first updated an item, and every lookup of
\* the second returned a non-success status.
C2_Witness ==
    /\ TraceOfLastTally
    /\ Len(tallies) = 2
    /\ tallies[1].updated >= 1
    /\ Len(shopify_items) = 2
    /\ AllLookupsNonSuccess(trace)
    /\ tallies[2].skipped = 2

RECURSIVE SumUpdated(_)
SumUpdated(ts) == IF ts = <<>> THEN 0 ELSE Head(ts).updated + SumUpdated(Tail(ts))
RECURSIVE SumSkipped(_)
SumSkipped(ts) == IF ts = <<>> THEN 0 ELSE Head(ts).skipped + SumSkipped(Tail(ts))

\* C3: at every point of the run, and so when the summary is logged,
\* total_updated and total_skipped are the sums of the counts returned for
\* the stores completed so far.
C3_AggregateCorrectness ==
    /\ total_updated = SumUpdated(tallies)
    /\ total_skipped = SumSkipped(tallies)

\* The summary was logged after two stores that both updated and skipped.
C3_Witness ==
    /\ summary
    /\ Len(tallies) = 2
    /\ \A k \in 1..2 : tallies[k].updated >= 1 /\ tallies[k].skipped >= 1

\* C4: with no store configured, or a shared FTP setting missing, the run
\* ends in the configuration error with no download and no request made.
C4_ConfigurationErrorBeforeNetwork ==
    (STORES = <<>> \/ environ.ftp # FtpVars) =>
        /\ pc \in {"start", "raised"}
        /\ pc = "raised" => exc = "EnvironmentError"
        /\ fetch_calls = 0
        /\ ftp = NoSession
        /\ trace = <<>>
        /\ tallies = <<>>

\* The check has raised for an environment that names a store and lacks
\* only the FTP host.
C4_Witness ==
    /\ pc = "raised"
    /\ exc = "EnvironmentError"
    /\ STORES # <<>>
    /\ environ.ftp = FtpVars \ {"FTP_HOST"}

\* C5: once the configuration check has passed the download is called
\* exactly once, however many stores there are, and it has returned its
\* DataFrame before any request goes to a store.
C5_FetchOnceBeforeTargets ==
    /\ fetch_calls <= 1
    /\ pc \in {"downloaded", "returned", "stores", "items", "adjust", "done"} => fetch_calls = 1
    /\ (pc = "raised" /\ raised_in # "check_environment") => fetch_calls = 1
    /\ (trace # <<>> \/ pc \in {"items", "adjust"}) =>
           fetch_calls = 1 /\ excel_data.t = "df" /\ ftp = NoSession

\* A run over two stores has ended, with requests made, on one download.
C5_Witness ==
    /\ pc = "done"
    /\ Len(STORES) = 2
    /\ Len(tallies) = 2
    /\ trace # <<>>
    /\ fetch_calls = 1

\* C6: a download that failed at any stage ends the run with nothing
\* processed: main returns, no request has been or will be made and no
\* counts are returned.
C6_FailedFetchProcessesNothing ==
    /\ [][(pc = "downloaded" /\ ftp.stage # "ok") =>
              (pc' = "returned" /\ trace' = <<>> /\ tallies' = <<>>)]_vars
    /\ [](pc = "returned" =>
              (excel_data.t = "None" /\ trace = <<>> /\ tallies = <<>> /\ ~summary /\ ~ENABLED Next))

\* main has returned after a download that failed.
C6_Witness ==
    /\ pc = "returned"
    /\ fetch_calls = 1
    /\ Len(STORES) = 2

\* C7: no fail-fast within a store.  Whatever the endpoint answered for an
\* item, the run of the store is not cut short by it: no answer received
\* makes the method raise.
C7_NoFailFast ==
    (trace # <<>> /\ Last(trace).response.t = "http") => pc # "raised"

\* C8: the lookup returns Absent, and does not raise, on every answer that
\* is not a first match with both ids.
C8_AbsentNotRaised ==
    (/\ trace # <<>>
     /\ Last(trace).op = "lookup"
     /\ Last(trace).response.t = "http"
     /\ ~IsMatch(Last(trace)))
        => (pc # "raised" /\ inventory_item_id = None)

\* C9: the count of an adjustment's outcome.  A 200 answer reporting no
\* field errors counts as updated, a 200 answer reporting field errors and
\* a non-200 answer count as skipped, and nothing else raises updated_count.
C9_OutcomeClassification ==
    [][/\ (pc = "adjust" /\ trace' # trace /\ Last(trace').response.t = "http") =>
              LET response == Last(trace').response
              IN  IF response.status_code = 200 /\ FieldErrors(response) = <<>>
                  THEN updated_count' = updated_count + 1 /\ skipped_count' = skipped_count
                  ELSE updated_count' = updated_count /\ skipped_count' = skipped_count + 1
       /\ (updated_count' # updated_count /\ pc # "stores") =>
              /\ pc = "adjust"
              /\ Last(trace').response.t = "http"
              /\ Last(trace').response.status_code = 200
              /\ FieldErrors(Last(trace').response) = <<>>]_vars

\* C10: no retry.  The requests of a store come item by item: a lookup is
\* the first request for its item, so no item is looked up twice; an
\* adjustment directly follows the lookup of its item, which resolved, so no
\* item is adjusted twice or unresolved; and a lookup that resolved is
\* directly followed by the adjustment of its item (which is about to be
\* sent when the lookup is the last request so far).
C10_NoRetry ==
    \A k \in 1..Len(trace) :
        /\ trace[k].op = "lookup" =>
               /\ \A j \in 1..(k - 1) : trace[j].index < trace[k].index
               /\ IsMatch(trace[k]) =>
                      IF k = Len(trace)
                      THEN pc = "adjust" /\ item_i = trace[k].index
                      ELSE trace[k + 1].op = "adjust" /\ trace[k + 1].index = trace[k].index
               /\ ~IsMatch(trace[k]) =>
                      (k < Len(trace) => trace[k + 1].index > trace[k].index)
        /\ trace[k].op = "adjust" =>
               /\ k > 1
               /\ trace[k - 1].op = "lookup"
               /\ trace[k - 1].index = trace[k].index
               /\ IsMatch(trace[k - 1])

\* A store's run is over with an adjustment that failed and a lookup that
\* failed behind it, neither of them repeated.
C10_Witness ==
    /\ TraceOfLastTally
    /\ Len(shopify_items) = 2
    /\ Len(trace) = 3
    /\ trace[1].response = Http(200, VariantBody(<<VariantEdge(trace[1].shop, trace[1].sku)>>))
    /\ trace[2].response = Http(500, NotJson)
    /\ trace[3].response = Http(500, NotJson)

(***************************************************************************)
(* The normalisation of the sheet.                                         *)
(***************************************************************************)
\* The row has a product code: its code cell, read as text, has a first
\* token, and the token is not "nan" in any case.
HasSku(df, row) ==
    /\ CodeColumn \in df.columns
    /\ \E i \in 1..Len(PyStr(row.code)) : ~IsSpace(PyStr(row.code)[i])
    /\ ~LowerIsNan(TakeToken(DropSpaces(PyStr(row.code))))

\* C11: a row without a product code is dropped silently.  Whatever the
\* sheet (no code column, an empty code cell, a code cell of blank text),
\* map_excel_to_shopify raises nothing, and every item it gives has a SKU
\* that is neither empty nor "nan".
C11_InvalidRowsDroppedSilently ==
    /\ raised_in # "map_excel_to_shopify"
    /\ \A k \in 1..Len(shopify_items) :
           /\ shopify_items[k].sku # <<>>
           /\ ~LowerIsNan(shopify_items[k].sku)

\* The row's quantity is missing (no Balance column), null (an empty
\* cell) or an integer.
MissingNullOrInteger(df, row) ==
    BalanceColumn \notin df.columns \/ row.balance.t \in {"nan", "None", "int"}

\* The quantity the row stands for: the integer of its Balance cell, and 0
\* when the sheet has no Balance column or the cell is empty.
QuantityOf(df, row) ==
    IF BalanceColumn \in df.columns /\ row.balance.t = "int" THEN row.balance.n ELSE 0

\* The item the row stands for.
ItemOf(df, row) == Item(TakeToken(DropSpaces(PyStr(row.code))), QuantityOf(df, row))

\* C12: a missing quantity is 0.  A row with a product code is kept: for
\* every row of every sheet the download hands over, the loop body of
\* map_excel_to_shopify appends exactly one item for it, with
\* the row's SKU and the integer of its Balance cell, or 0 when the column
\* or the cell's value is missing; and no item is ever without an integer
\* quantity.
C12_MissingQuantityIsZero ==
    /\ (pc = "downloaded" /\ excel_data.t = "df") =>
           \A i \in 1..Len(excel_data.rows) :
               (/\ HasSku(excel_data, excel_data.rows[i])
                /\ MissingNullOrInteger(excel_data, excel_data.rows[i])) =>
                   LET mapped == MapRow(excel_data, excel_data.rows[i], <<>>)
                   IN  /\ mapped.exc = "none"
                       /\ mapped.v = <<ItemOf(excel_data, excel_data.rows[i])>>
    /\ \A k \in 1..Len(shopify_items) : shopify_items[k].inventory_quantity \in Int

\* The items of a sheet with a row of quantity 14, whose code cell has an
\* em space between the SKU and the description, and a row whose Balance
\* cell is empty are being synced.
C12_Witness ==
    /\ pc = "items"
    /\ excel_data.t = "df"
    /\ BalanceColumn \in excel_data.columns
    /\ Len(excel_data.rows) = 2
    /\ excel_data.rows[1].balance = PyInt(14)
    /\ excel_data.rows[2].balance = NaN
    /\ shopify_items = <<Item(S1, 14), Item(S2, 0)>>

\* The items the rows stand for: one for each row with a product code, in
\* the order of the rows.
RECURSIVE ItemsOf(_, _)
ItemsOf(df, rows) ==
    IF rows = <<>> THEN <<>>
    ELSE (IF HasSku(df, Head(rows)) THEN <<ItemOf(df, Head(rows))>> ELSE <<>>)
             \o ItemsOf(df, Tail(rows))

\* map_excel_to_shopify has returned for some store.
Mapped == pc \in {"items", "adjust"} \/ (pc \in {"stores", "done"} /\ store_i > 1)

\* The requests of the store's run that are for item i.
LookupsOf(i) == { k \in Lookups(trace) : trace[k].index = i }
AdjustmentsOf(i) == { k \in Adjustments(trace) : trace[k].index = i }

\* C13: order and duplicates.  The items map_excel_to_shopify returns are
\* the rows with a product code, one item for each, in the order of the
\* sheet, rows of one SKU not merged; and when a store's sync has returned,
\* every item, whatever the SKUs of the others, has had one lookup of its
\* own, with its SKU, and one adjustment of its own if the lookup resolved.
C13_OrderAndDuplicatesKept ==
    /\ [](Mapped => shopify_items = ItemsOf(excel_data, excel_data.rows))
    /\ [](TraceOfLastTally =>
              \A i \in 1..Len(shopify_items) :
                  /\ Cardinality(LookupsOf(i)) = 1
                  /\ \A k \in LookupsOf(i) :
                         /\ trace[k].sku = shopify_items[i].sku
                         /\ Cardinality(AdjustmentsOf(i)) = IF IsMatch(trace[k]) THEN 1 ELSE 0)

\* A store's sync has returned for a sheet of two rows of one SKU: two
\* items, two lookups and two adjustments.
C13_Witness ==
    /\ TraceOfLastTally
    /\ Len(excel_data.rows) = 2
    /\ excel_data.rows[1] = excel_data.rows[2]
    /\ shopify_items = <<Item(S1, 14), Item(S1, 14)>>
    /\ Cardinality(Lookups(trace)) = 2
    /\ Cardinality(Adjustments(trace)) = 2

\* The sheet has no product code at all: no code column, or only empty
\* code cells (also a sheet without rows).
NoCodes(df) ==
    \/ CodeColumn \notin df.columns
    \/ \A i \in 1..Len(df.rows) : df.rows[i].code.t = "nan"

\* C14: nothing to do.  When the sheet gives no item, no lookup and no
\* adjustment is sent to any store, no store's sync is run, nothing is
\* counted and nothing is raised: every store is passed over and the run
\* ends.
C14_NothingToDo ==
    (excel_data.t = "df" /\ NoCodes(excel_data)) =>
        /\ pc \in {"downloaded", "stores", "done"}
        /\ exc = "none"
        /\ trace = <<>>
        /\ tallies = <<>>
        /\ shopify_items = <<>>
        /\ total_updated = 0
        /\ total_skipped = 0
        /\ pc = "stores" => ENABLED (StoreBegin \/ Summary)

\* The run is over for two stores and a sheet whose only row has an empty
\* code cell.
C14_Witness ==
    /\ pc = "done"
    /\ Len(STORES) = 2
    /\ excel_data.t = "df"
    /\ CodeColumn \in excel_data.columns
    /\ Len(excel_data.rows) = 1
    /\ NoCodes(excel_data)
    /\ trace = <<>>

\* The records a step has handed to the logger.
NewRecords == SubSeq(sync_log', Len(sync_log) + 1, Len(sync_log'))

\* The lookups of the trace answered with a status other than 200, and
\* those that were answered with 200 and matched no variant.
TransportFailures(tr) ==
    { k \in Lookups(tr) : tr[k].response.t = "http" /\ tr[k].response.status_code # 200 }
NoMatches(tr) == { k \in Lookups(tr) : tr[k].response = Http(200, VariantBody(<<>>)) }

\* A step of the loop that skips an item on its lookup (lines 357-361)
\* reports the cause: a lookup that failed hands the logger one record,
\* the warning "Error fetching variant" naming the item's SKU and the
\* store, which app.log receives; a lookup that matched nothing hands it
\* one record, "Variant not found" at the level DEBUG, which app.log at
\* its level does not receive.  In both cases skipped_count grows by one.
SkipReportsCause ==
    (/\ pc = "items"
     /\ pc' = "items"
     /\ item_i' = item_i + 1) =>
        /\ skipped_count' = skipped_count + 1
        /\ Len(trace') \in TransportFailures(trace') =>
               /\ NewRecords = <<ItemRecord("WARNING", "Error fetching variant for SKU",
                                            shop, item.sku)>>
               /\ AppLog(NewRecords) = NewRecords
        /\ Len(trace') \in NoMatches(trace') =>
               /\ NewRecords = <<ItemRecord("DEBUG", "Variant not found for SKU",
                                            shop, item.sku)>>
               /\ AppLog(NewRecords) = <<>>

\* The records of a message in the log, and the lookups of a SKU in a set
\* of trace positions.
RecordsOf(msg, sku) ==
    { k \in 1..Len(sync_log) : sync_log[k].msg = msg /\ sync_log[k].sku = sku }
LookupsFor(positions, sku) == { k \in positions : trace[k].sku = sku }

\* C15: the cause of a skip is retained in what the sync reports.  Every
\* step that skips an item on its lookup logs the cause, a warning for a
\* lookup that failed and a debug record for one that matched nothing; so
\* at any moment of a store's sync the log holds, for every SKU, as many
\* "Error fetching variant" warnings as lookups of it have failed, all of
\* them in app.log, and at least as many "Variant not found" records as
\* lookups of it have matched nothing, and the two are never the same
\* record.
C15_SkipCauseRetained ==
    /\ [][SkipReportsCause]_vars
    /\ [](\A k \in Lookups(trace) :
             /\ Cardinality(RecordsOf("Error fetching variant for SKU", trace[k].sku))
                    = Cardinality(LookupsFor(TransportFailures(trace), trace[k].sku))
             /\ Cardinality(RecordsOf("Variant not found for SKU", trace[k].sku))
                    >= Cardinality(LookupsFor(NoMatches(trace), trace[k].sku))
             /\ \A r \in RecordsOf("Error fetching variant for SKU", trace[k].sku) :
                    sync_log[r].level = "WARNING" /\ Emitted(sync_log[r]))

\* A store's sync has returned (0, 2): the first item was skipped on a
\* lookup answered with status 500, the second on a lookup that matched
\* nothing, and the log tells them apart.
C15_Witness ==
    /\ TraceOfLastTally
    /\ Len(trace) = 2
    /\ TransportFailures(trace) = {1}
    /\ NoMatches(trace) = {2}
    /\ Last(tallies).skipped = 2
    /\ Len(sync_log) = 4
    /\ sync_log[2] = ItemRecord("WARNING", "Error fetching variant for SKU",
                                trace[1].shop, trace[1].sku)
    /\ sync_log[3] = ItemRecord("DEBUG", "Variant not found for SKU",
                                trace[2].shop, trace[2].sku)
    /\ Len(AppLog(sync_log)) = 3

\* Both SHOP_NAME_i and ACCESS_TOKEN_i are set.
Complete(i) == environ.shop_name[i] /\ environ.access_token[i]

\* C16: the stores are the longest complete prefix.  STORES holds the
\* stores of the indices 1, 2, ... in order, each with both variables set,
\* and stops before the first index with one of them unset, whatever is
\* set behind it; and no request goes to, and no tally comes from, a store
\* behind that index.
C16_LongestCompletePrefix ==
    /\ \A k \in 1..Len(STORES) : STORES[k].shop_name = k /\ Complete(k)
    /\ Len(STORES) < MaxStoreIndex => ~Complete(Len(STORES) + 1)
    /\ \A k \in 1..Len(trace) : trace[k].shop \in 1..Len(STORES)
    /\ \A k \in 1..Len(tallies) : tallies[k].shop \in 1..Len(STORES)

\* Index 1 has a name and no token, index 2 has both: no store is loaded,
\* and check_environment has refused to start.
C16_Witness ==
    /\ environ.shop_name[1]
    /\ ~environ.access_token[1]
    /\ Complete(MaxStoreIndex)
    /\ STORES = <<>>
    /\ pc = "raised"

\* C17: the FTP session is released on every path.  When
\* download_excel_from_ftp has returned, quit() was called exactly once if
\* a connection was opened and not at all if none was, with the sheet
\* downloaded or not; and whatever quit() raised has neither left the
\* function nor changed what it returns: the sheet when every step went
\* through, None otherwise.
C17_SessionReleased ==
    /\ raised_in # "download_excel_from_ftp"
    /\ pc = "downloaded" =>
           /\ ftp.quit_calls = (IF ftp.opened THEN 1 ELSE 0)
           /\ ftp.escaped = "none"
           /\ excel_data.t = (IF ftp.stage = "ok" THEN "df" ELSE "None")

\* C18: the items are shared and left alone.  No step changes the sheet
\* once it is downloaded, nor the items once they are mapped (mapping them
\* again for the next store gives the same items, with the same SKUs and
\* quantities in the same order), nor a tally already returned for a store.
C18_SharedItemsLeftAlone ==
    [][/\ excel_data.t = "df" => excel_data' = excel_data
       /\ Mapped => shopify_items' = shopify_items
       /\ Len(tallies') >= Len(tallies)
       /\ \A k \in 1..Len(tallies) : tallies'[k] = tallies[k]]_vars

\* The second store is being synced, after an update at the first, with
\* the two items the sheet stands for.
C18_Witness ==
    /\ pc = "items"
    /\ store_i = 2
    /\ Len(tallies) = 1
    /\ tallies[1].updated >= 1
    /\ trace # <<>>
    /\ trace[1].shop = 2
    /\ Len(shopify_items) = 2
    /\ shopify_items = ItemsOf(excel_data, excel_data.rows)

\* A step of a store's sync lowers neither counter, and going on to the
\* next item it adds exactly 1 to exactly one of them.
CountsOneItem ==
    pc \in {"items", "adjust"} =>
        /\ updated_count' >= updated_count
        /\ skipped_count' >= skipped_count
        /\ item_i' # item_i =>
               /\ item_i' = item_i + 1
               /\ \/ updated_count' = updated_count + 1 /\ skipped_count' = skipped_count
                  \/ updated_count' = updated_count /\ skipped_count' = skipped_count + 1

\* C19: the counters partition the items.  Within a store's sync the two
\* counters add up to the number of items gone through; a step that goes on
\* to the next item adds exactly 1 to exactly one of them; no step of the
\* sync lowers either; and the tally a sync returns adds up to the number
\* of items.
C19_CountersPartitionItems ==
    /\ [](pc \in {"items", "adjust"} => updated_count + skipped_count = item_i - 1)
    /\ [](TraceOfLastTally =>
              Last(tallies).updated + Last(tallies).skipped = Len(shopify_items))
    /\ [][CountsOneItem]_vars

\* A store's sync has returned one update and one skip for two items.
C19_Witness ==
    /\ TraceOfLastTally
    /\ Len(shopify_items) = 2
    /\ Last(tallies).updated = 1
    /\ Last(tallies).skipped = 1
    /\ updated_count = 1
    /\ skipped_count = 1

\* The inventory item id the answer to a lookup carries in its first match.
InventoryItemIdIn(response) ==
    response.body.f.data.f.productVariants.f.edges.l[1].f.node.f.inventoryItem.f.id

\* C20: resolve before adjust.  Every adjustment sent follows the lookup
\* of the same item at the same store, that lookup was answered with a
\* match, and the adjustment carries the inventory item id of that answer
\* and the quantity of that item; and while an adjustment is about to be
\* sent, the id held is the one the last lookup, of this item at this store,
\* was answered with.
C20_ResolveBeforeAdjust ==
    /\ \A k \in Adjustments(trace) :
           /\ k > 1
           /\ trace[k - 1].op = "lookup"
           /\ trace[k - 1].shop = trace[k].shop
           /\ trace[k - 1].index = trace[k].index
           /\ IsMatch(trace[k - 1])
           /\ trace[k].inventory_item_id = InventoryItemIdIn(trace[k - 1].response)
           /\ trace[k].inventory_item_id = InventoryItemId(trace[k].shop, trace[k - 1].sku)
           /\ trace[k].delta = shopify_items[trace[k].index].inventory_quantity
    /\ pc = "adjust" =>
           /\ trace # <<>>
           /\ Last(trace).op = "lookup"
           /\ Last(trace).shop = shop
           /\ Last(trace).index = item_i
           /\ IsMatch(Last(trace))
           /\ inventory_item_id = InventoryItemIdIn(Last(trace).response)

\* The second store has been sent the adjustment of the second item, with
\* that store's id of the item and the item's quantity, after an unmatched
\* lookup of the first item.
C20_Witness ==
    /\ Len(trace) = 3
    /\ trace[1].op = "lookup"
    /\ ~IsMatch(trace[1])
    /\ trace[3].op = "adjust"
    /\ trace[3].shop = 2
    /\ trace[3].index = 2
    /\ trace[3].inventory_item_id = InventoryItemId(2, S2)
    /\ trace[3].delta = 0
    /\ shopify_items[1].inventory_quantity = 14

====
